---- MODULE Spec2Model ----
(***************************************************************************)
(* One run of pydamage_analyze (src/pydamage/main.py).  The parent process *)
(* walks through the function body; the per-reference Fitter invocations   *)
(* run in the workers of a multiprocessing.Pool and finish in any order.   *)
(* Fitter results, plot failures and the Accuracy Predictor's frame are    *)
(* inputs of the run and are drawn from small sets.                        *)
(***************************************************************************)
EXTENDS Integers, Sequences, FiniteSets

VARIABLES pc, err, refs, process, group, plot, proc, pools, next, running,
          cache, completed, res, filt_res, fitLog, fitOut, warned,
          plotFailed, res_dict, tableCalled, df_pydamage, prep_df_glm,
          df_glm, df, csv, predictorRuns

vars == <<pc, err, refs, process, group, plot, proc, pools, next, running,
          cache, completed, res, filt_res, fitLog, fitOut, warned,
          plotFailed, res_dict, tableCalled, df_pydamage, prep_df_glm,
          df_glm, df, csv, predictorRuns>>

\* ---------------------------------------------------------------- bounds
MaxRefs == 3
MaxProcess == 2

\* ------------------------------------------------------------ data model
None == 0
RefIds == 1..MaxRefs

\* what one call of damage.test_damage can do
Outcomes == {"usable", "nodata", "raise"}

\* the value test_damage returns: a FitResult (truthy) or the falsy
\* "no usable data" signal
FitResult(r) == [usable |-> TRUE, reference |-> r]
NoData == [usable |-> FALSE, reference |-> None]
ResultOf(r, o) == IF o = "usable" THEN FitResult(r) ELSE NoData

\* reference lists prepare_bam can return: distinct identifiers, any order
RefLists ==
    UNION {{s \in [1..n -> RefIds] : \A i, j \in 1..n : i # j => s[i] # s[j]}
           : n \in 0..MaxRefs}

Min(a, b) == IF a < b THEN a ELSE b

\* ------------------------------------------------------- pure operators
\* python truthiness of an element of res (line 118, "if i")
KeepAll(x) == TRUE
Truthy(x) == x.usable

\* the branch taken at line 103
GroupBranchMut == group /\ Len(refs) <= 1
GroupBranch == group

\* multiprocessing.Pool(n) rejects n < 1 with ValueError
PoolSizeValid(n) == n >= 1

\* Pool.imap yields results in submission order: the next index the parent
\* can take is the one after those already taken, once it has finished
\* (0: nothing to take yet)
ImapYieldIndexUnordered ==
    IF Len(res) < Len(completed) THEN completed[Len(res) + 1] ELSE 0
ImapYieldIndex ==
    IF Len(res) < Len(refs) /\ cache[Len(res) + 1] # "pending"
    THEN Len(res) + 1 ELSE 0

\* list(...) around imap returns when every submitted task was yielded
ImapExhaustedEarly == Len(res) >= 1
ImapExhausted == Len(res) = Len(refs)

\* utils.pandas_processing: one row per element, keyed by reference
RowKeys(rs) == [i \in 1..Len(rs) |-> rs[i].reference]

\* frames are sequences of row keys
RemoveAt(s, i) == [j \in 1..(Len(s) - 1) |-> IF j < i THEN s[j] ELSE s[j + 1]]
DupAt(s, i) ==
    [j \in 1..(Len(s) + 1) |-> IF j <= i THEN s[j] ELSE s[j - 1]]

\* frames the Accuracy Predictor can hand back for input frame d: the same
\* rows, or (a defect) a row lost or a row repeated
GlmFrames(d) ==
    {d} \cup {RemoveAt(d, i) : i \in 1..Len(d)}
        \cup {DupAt(d, i) : i \in 1..Len(d)}

\* DataFrame.merge(left_index=True, right_index=True), how="inner": one row
\* for every pair of a left and a right row with equal keys
JoinRow(k, R) == SelectSeq(R, LAMBDA x : x = k)
RECURSIVE InnerJoin(_, _)
InnerJoin(L, R) ==
    IF L = <<>> THEN <<>>
    ELSE JoinRow(Head(L), R) \o InnerJoin(Tail(L), R)

\* ------------------------------------------------------------------ Init
Init ==
    /\ pc = "start"
    /\ err = "none"
    /\ refs = <<>>
    /\ process \in 1..MaxProcess
    /\ group \in BOOLEAN
    /\ plot \in BOOLEAN
    /\ proc = 0
    /\ pools = <<>>
    /\ next = 1
    /\ running = {}
    /\ cache = <<>>
    /\ completed = <<>>
    /\ res = <<>>
    /\ filt_res = <<>>
    /\ fitLog = <<>>
    /\ fitOut = [r \in RefIds \cup {None} |-> "none"]
    /\ warned = 0
    /\ plotFailed = FALSE
    /\ res_dict = <<>>
    /\ tableCalled = FALSE
    /\ df_pydamage = <<>>
    /\ prep_df_glm = <<>>
    /\ df_glm = <<>>
    /\ df = <<>>
    /\ csv = <<>>
    /\ predictorRuns = 0

\* --------------------------------------------------------------- actions
\* lines 69-71: refs, mode = utils.prepare_bam(bam); proc = min(len(refs), process)
PrepareBam ==
    /\ pc = "start"
    /\ \E rl \in RefLists :
        /\ refs' = rl
        /\ proc' = Min(Len(rl), process)
        /\ cache' = [i \in 1..Len(rl) |-> "pending"]
    /\ pc' = "fit"
    /\ UNCHANGED <<err, process, group, plot, pools, next, running, completed,
                   res, filt_res, fitLog, fitOut, warned, plotFailed,
                   res_dict, tableCalled, df_pydamage, prep_df_glm, df_glm,
                   df, csv, predictorRuns>>

\* lines 103-114: one synchronous call with ref=None, result kept unfiltered
FitGroup ==
    /\ pc = "fit"
    /\ GroupBranch
    /\ \E o \in Outcomes :
        /\ fitLog' = Append(fitLog, [reference |-> None, inPool |-> FALSE])
        /\ fitOut' = [fitOut EXCEPT ![None] = o]
        /\ IF o = "raise"
           THEN /\ pc' = "error"
                /\ err' = "FitterException"
                /\ UNCHANGED filt_res
           ELSE /\ pc' = "report"
                /\ filt_res' = <<ResultOf(None, o)>>
                /\ UNCHANGED err
    /\ UNCHANGED <<refs, process, group, plot, proc, pools, next, running,
                   cache, completed, res, warned, plotFailed, res_dict,
                   tableCalled, df_pydamage, prep_df_glm, df_glm, df, csv,
                   predictorRuns>>

\* line 116: multiprocessing.Pool(proc)
CreateFitPool ==
    /\ pc = "fit"
    /\ ~GroupBranch
    /\ pools' = Append(pools, [size |-> proc, purpose |-> "fit"])
    /\ IF PoolSizeValid(proc)
       THEN pc' = "imap" /\ UNCHANGED err
       ELSE pc' = "error" /\ err' = "ValueError"
    /\ UNCHANGED <<refs, process, group, plot, proc, next, running, cache,
                   completed, res, filt_res, fitLog, fitOut, warned,
                   plotFailed, res_dict, tableCalled, df_pydamage,
                   prep_df_glm, df_glm, df, csv, predictorRuns>>

\* line 117: an idle worker takes the next submitted reference
WorkerStart ==
    /\ pc = "imap"
    /\ next <= Len(refs)
    /\ Cardinality(running) < proc
    /\ running' = running \cup {next}
    /\ fitLog' = Append(fitLog, [reference |-> refs[next], inPool |-> TRUE])
    /\ next' = next + 1
    /\ UNCHANGED <<pc, err, refs, process, group, plot, proc, pools, cache,
                   completed, res, filt_res, fitOut, warned, plotFailed,
                   res_dict, tableCalled, df_pydamage, prep_df_glm, df_glm,
                   df, csv, predictorRuns>>

\* line 117: test_damage_partial(ref) finishes in a worker
WorkerFinish ==
    /\ pc = "imap"
    /\ \E i \in running, o \in Outcomes :
        /\ running' = running \ {i}
        /\ cache' = [cache EXCEPT ![i] = o]
        /\ fitOut' = [fitOut EXCEPT ![refs[i]] = o]
        /\ completed' = Append(completed, i)
    /\ UNCHANGED <<pc, err, refs, process, group, plot, proc, pools, next,
                   res, filt_res, fitLog, warned, plotFailed, res_dict,
                   tableCalled, df_pydamage, prep_df_glm, df_glm, df, csv,
                   predictorRuns>>

\* line 117: list(tqdm(p.imap(...))) takes the next result; a task that
\* raised re-raises in the parent, and leaving the with block terminates
\* the pool
ImapNext ==
    /\ pc = "imap"
    /\ ImapYieldIndex # 0
    /\ LET k == ImapYieldIndex IN
        IF cache[k] = "raise"
        THEN /\ pc' = "error"
             /\ err' = "FitterException"
             /\ running' = {}
             /\ UNCHANGED res
        ELSE /\ res' = Append(res, ResultOf(refs[k], cache[k]))
             /\ UNCHANGED <<pc, err, running>>
    /\ UNCHANGED <<refs, process, group, plot, proc, pools, next, cache,
                   completed, filt_res, fitLog, fitOut, warned, plotFailed,
                   res_dict, tableCalled, df_pydamage, prep_df_glm, df_glm,
                   df, csv, predictorRuns>>

\* lines 116-118: the with block is left; filt_res = [i for i in res if i]
CollectResults ==
    /\ pc = "imap"
    /\ ImapExhausted
    /\ running' = {}
    /\ filt_res' = SelectSeq(res, Truthy)
    /\ pc' = "report"
    /\ UNCHANGED <<err, refs, process, group, plot, proc, pools, next, cache,
                   completed, res, fitLog, fitOut, warned, plotFailed,
                   res_dict, tableCalled, df_pydamage, prep_df_glm, df_glm,
                   df, csv, predictorRuns>>

\* lines 120-124: the count is printed; an empty filt_res is warned about
Report ==
    /\ pc = "report"
    /\ warned' = IF Len(filt_res) = 0 THEN warned + 1 ELSE warned
    /\ pc' = "plot"
    /\ UNCHANGED <<err, refs, process, group, plot, proc, pools, next,
                   running, cache, completed, res, filt_res, fitLog, fitOut,
                   plotFailed, res_dict, tableCalled, df_pydamage,
                   prep_df_glm, df_glm, df, csv, predictorRuns>>

\* line 126: the condition is false, plotting is skipped
SkipPlot ==
    /\ pc = "plot"
    /\ ~(plot /\ Len(filt_res) > 0)
    /\ pc' = "table"
    /\ UNCHANGED <<err, refs, process, group, plot, proc, pools, next,
                   running, cache, completed, res, filt_res, fitLog, fitOut,
                   warned, plotFailed, res_dict, tableCalled, df_pydamage,
                   prep_df_glm, df_glm, df, csv, predictorRuns>>

\* lines 126-132: multiprocessing.Pool(proc) for the plots
CreatePlotPool ==
    /\ pc = "plot"
    /\ plot /\ Len(filt_res) > 0
    /\ pools' = Append(pools, [size |-> proc, purpose |-> "plot"])
    /\ IF PoolSizeValid(proc)
       THEN pc' = "plotting" /\ UNCHANGED err
       ELSE pc' = "error" /\ err' = "ValueError"
    /\ UNCHANGED <<refs, process, group, plot, proc, next, running, cache,
                   completed, res, filt_res, fitLog, fitOut, warned,
                   plotFailed, res_dict, tableCalled, df_pydamage,
                   prep_df_glm, df_glm, df, csv, predictorRuns>>

\* line 133: list(tqdm(p.imap(plot_partial, filt_res))); a damageplot call
\* that raised re-raises in the parent
PlotImap ==
    /\ pc = "plotting"
    /\ \E failed \in BOOLEAN :
        /\ plotFailed' = failed
        /\ IF failed
           THEN pc' = "error" /\ err' = "PlotException"
           ELSE pc' = "table" /\ UNCHANGED err
    /\ UNCHANGED <<refs, process, group, plot, proc, pools, next, running,
                   cache, completed, res, filt_res, fitLog, fitOut, warned,
                   res_dict, tableCalled, df_pydamage, prep_df_glm, df_glm,
                   df, csv, predictorRuns>>

\* line 134: df_pydamage = utils.pandas_processing(res_dict=filt_res, ...);
\* an element that is no FitResult does not fit the row schema
BuildTable ==
    /\ pc = "table"
    /\ res_dict' = filt_res
    /\ tableCalled' = TRUE
    /\ IF \A i \in 1..Len(filt_res) : filt_res[i].usable
       THEN /\ df_pydamage' = RowKeys(filt_res)
            /\ pc' = "predict"
            /\ UNCHANGED err
       ELSE /\ pc' = "error"
            /\ err' = "SchemaMismatch"
            /\ UNCHANGED df_pydamage
    /\ UNCHANGED <<refs, process, group, plot, proc, pools, next, running,
                   cache, completed, res, filt_res, fitLog, fitOut, warned,
                   plotFailed, prep_df_glm, df_glm, df, csv, predictorRuns>>

\* lines 136-137: prepare_data and glm_predict over the whole frame
Predict ==
    /\ pc = "predict"
    /\ prep_df_glm' = df_pydamage
    /\ predictorRuns' = predictorRuns + 1
    /\ \E g \in GlmFrames(df_pydamage) : df_glm' = g
    /\ pc' = "merge"
    /\ UNCHANGED <<err, refs, process, group, plot, proc, pools, next,
                   running, cache, completed, res, filt_res, fitLog, fitOut,
                   warned, plotFailed, res_dict, tableCalled, df_pydamage,
                   df, csv>>

\* lines 139-142: merge on the index, write the csv, return df
MergeAndWrite ==
    /\ pc = "merge"
    /\ df' = InnerJoin(df_glm, df_pydamage)
    /\ csv' = df'
    /\ pc' = "done"
    /\ UNCHANGED <<err, refs, process, group, plot, proc, pools, next,
                   running, cache, completed, res, filt_res, fitLog, fitOut,
                   warned, plotFailed, res_dict, tableCalled, df_pydamage,
                   prep_df_glm, df_glm, predictorRuns>>

Next ==
    \/ PrepareBam
    \/ FitGroup
    \/ CreateFitPool
    \/ WorkerStart
    \/ WorkerFinish
    \/ ImapNext
    \/ CollectResults
    \/ Report
    \/ SkipPlot
    \/ CreatePlotPool
    \/ PlotImap
    \/ BuildTable
    \/ Predict
    \/ MergeAndWrite

Spec == Init /\ [][Next]_vars

\* ------------------------------------------------------------ vocabulary
Terminated == pc \in {"done", "error"}

\* the fitting stage is over and filt_res was assigned
Collected ==
    \/ pc \in {"report", "plot", "plotting", "table", "predict", "merge", "done"}
    \/ pc = "error" /\ err \in {"PlotException", "SchemaMismatch"}
    \/ pc = "error" /\ err = "ValueError" /\ Len(pools) > 0
         /\ pools[Len(pools)].purpose = "plot"

Calls(r) == Cardinality({i \in DOMAIN fitLog : fitLog[i].reference = r})

\* the usable results, by what each reference's call returned, in the
\* order of the reference list
RECURSIVE UsableInRefOrder(_)
UsableInRefOrder(rl) ==
    IF rl = <<>> THEN <<>>
    ELSE (IF fitOut[Head(rl)] = "usable" THEN <<FitResult(Head(rl))>> ELSE <<>>)
         \o UsableInRefOrder(Tail(rl))

NbUsable == Cardinality({i \in DOMAIN refs : fitOut[refs[i]] = "usable"})

SomeFitterRaised == \E r \in RefIds \cup {None} : fitOut[r] = "raise"

TypeOK ==
    /\ pc \in {"start", "fit", "imap", "report", "plot", "plotting", "table",
               "predict", "merge", "done", "error"}
    /\ running \subseteq DOMAIN refs
    /\ next \in 1..(Len(refs) + 1)
    /\ warned \in 0..1

\* ---------------------------------------------------------------- claims

\* C1 (as claimed): in per-reference mode, when some reference's Fitter
\* invocation raised while a sibling returned a usable result, the run
\* still completes: once it has ended it ended normally, and the usable
\* results of the references that did not raise are what filt_res holds.
SiblingUsable == \E r \in RefIds : fitOut[r] = "usable"
C1_LogAndSkip ==
    (~group /\ SomeFitterRaised /\ SiblingUsable /\ Terminated)
        => /\ pc = "done"
           /\ filt_res = UsableInRefOrder(refs)

\* C2 (as claimed): when no reference produced a usable FitResult (none
\* raised either), in both modes and also with an empty reference list, a
\* run that has ended has warned exactly once, ended normally and returned
\* an empty table.
NoUsableResult ==
    /\ ~SomeFitterRaised
    /\ \A r \in RefIds \cup {None} : fitOut[r] # "usable"
C2_EmptyResultWarned ==
    (Terminated /\ NoUsableResult)
        => /\ pc = "done"
           /\ warned = 1
           /\ df = <<>>

\* C3 (as claimed): every element handed to the table builder is a usable
\* Fitter result, in both modes.
C3_OnlyUsableHanded ==
    tableCalled => \A i \in 1..Len(res_dict) : res_dict[i].usable

\* C4 (as claimed): the run returns a table only when the row keys of the
\* predictor frame and of the Fitter frame match exactly (same keys, each
\* the same number of times); on a mismatch it ends in an error.
KeyCount(f, k) == Cardinality({i \in DOMAIN f : f[i] = k})
KeysMatch(a, b) == \A k \in RefIds \cup {None} : KeyCount(a, k) = KeyCount(b, k)
C4_MismatchIsFatal ==
    pc = "done" => KeysMatch(df_glm, df_pydamage)

\* C5: in per-reference mode, once the results are collected, filt_res is
\* the usable results in the order of the reference list, whatever the
\* order in which the workers finished; the table builder gets that list.
C5_OrderIndependent ==
    /\ (~group /\ Collected) => filt_res = UsableInRefOrder(refs)
    /\ (~group /\ tableCalled) => res_dict = UsableInRefOrder(refs)
\* two usable results were collected although the second reference finished
\* before the first
C5_Witness ==
    /\ ~group /\ tableCalled
    /\ Len(res_dict) >= 2
    /\ completed[1] # 1

\* C6: the Accuracy Predictor starts only when no Fitter invocation is
\* running or pending and every result was collected; it runs at most once,
\* over the whole collected table, and exactly once in a run that returns.
C6_Barrier ==
    /\ predictorRuns <= 1
    /\ pc = "done" => predictorRuns = 1
    /\ predictorRuns > 0 =>
        /\ running = {}
        /\ Len(prep_df_glm) = Len(filt_res)
        /\ ~group => /\ next > Len(refs)
                     /\ Len(res) = Len(refs)
                     /\ \A i \in DOMAIN refs : cache[i] # "pending"
                     /\ Len(fitLog) = Len(refs)
        /\ group => Len(fitLog) = 1 /\ fitOut[None] # "none"
\* the predictor has run after a fan-out over several references with at
\* least two workers
C6_Witness ==
    /\ predictorRuns = 1
    /\ ~group
    /\ Len(refs) >= 2
    /\ proc >= 2
    /\ Len(prep_df_glm) >= 1

\* C7 (as claimed): every pool has size min(len(refs), process), that size
\* is at least 1, and no more Fitter invocations than that run at a time.
C7_PoolSize ==
    /\ \A i \in DOMAIN pools :
        /\ pools[i].size = Min(Len(refs), process)
        /\ pools[i].size >= 1
    /\ Cardinality(running) <= Min(Len(refs), process)

\* C8 (as claimed): a failing plot leaves the table alone: the run still
\* ends normally with the table built from the collected results.
C8_PlotFailureHarmless ==
    (plotFailed /\ Terminated)
        => /\ pc = "done"
           /\ df_pydamage = RowKeys(filt_res)

\* C9: in grouped mode the Fitter is invoked at most once, with ref=None,
\* in the calling process; once the fitting stage is over it was invoked
\* exactly once; no fitting pool exists and no worker ever runs.
C9_GroupedSynchronous ==
    group =>
        /\ Len(fitLog) <= 1
        /\ \A i \in DOMAIN fitLog :
            fitLog[i].reference = None /\ ~fitLog[i].inPool
        /\ \A i \in DOMAIN pools : pools[i].purpose # "fit"
        /\ running = {}
        /\ pc \notin {"start", "fit"} => Len(fitLog) = 1
\* grouped mode over several references and several configured workers,
\* fitted by one call
C9_Witness ==
    /\ group
    /\ Len(refs) >= 2
    /\ process >= 2
    /\ Collected
    /\ Len(fitLog) = 1

\* C10: in per-reference mode no reference is ever handed to the Fitter
\* twice; once the results are collected every reference of the list was
\* handed to it exactly once, and the number of collected results is the
\* number of references whose invocation returned a usable result, hence
\* at most the number of references.
C10_OncePerReference ==
    ~group =>
        /\ \A r \in RefIds : Calls(r) <= 1
        /\ \A i \in DOMAIN fitLog :
            \E j \in DOMAIN refs : refs[j] = fitLog[i].reference
        /\ Len(filt_res) <= Len(refs)
        /\ Collected =>
            /\ \A j \in DOMAIN refs : Calls(refs[j]) = 1
            /\ Len(filt_res) = NbUsable
\* results are collected from several references, one of which returned
\* "no usable data" and was not tried again
C10_Witness ==
    /\ ~group /\ Collected
    /\ Len(refs) >= 2
    /\ \E j \in DOMAIN refs : fitOut[refs[j]] = "nodata"
    /\ Len(filt_res) >= 1
====
